---------------------------- MODULE Spec2Model ----------------------------
(***************************************************************************)
(* Sargam (Carnatic music transcriber).                                    *)
(*                                                                         *)
(* Spec         the browser client: the zustand store (store/app-store.ts),*)
(*              handleTranscribe (app/page.tsx) with its progress interval,*)
(*              upload-progress callback and delayed reset, and the        *)
(*              FileUpload handlers onDrop / handleRemove.                 *)
(* SpecPlayback the playback-synchronised swaram view (getCurrentSwaram).  *)
(* SpecRaaga    the Raaga Matcher (detectRaaga) over note sequences.       *)
(* SpecMapper   the Swaram Mapper and Gamakam Classifier over pitch frames.*)
(* SpecPipeline the transcribe() boundary: validation, stages, faults.     *)
(*                                                                         *)
(* The Python backend (backend/api/*.py) is not part of the sources at     *)
(* hand; its operators are modelled from the design specification and the  *)
(* repository's documentation and are marked as such in MODEL_MAP.json.    *)
(***************************************************************************)
EXTENDS Integers, Sequences, FiniteSets, TLC

VARIABLES
    \* ---- store/app-store.ts : AppState
    audioFile,              \* File | null
    audioUrl,               \* string | null
    isTranscribing,         \* boolean
    transcriptionProgress,  \* number (or whatever a caller stored there)
    transcriptionResult,    \* SwaramNote[] | null
    raagaInfo,              \* RaagaInfo | null
    lyrics,                 \* LyricsData[] | null
    currentTime,            \* number
    isPlaying,              \* boolean
    duration,               \* number
    \* ---- app/page.tsx : handleTranscribe's asynchronous environment
    inFlight,               \* number of pending axios.post promises
    uploaded,               \* the latest percentCompleted of the pending request
    intervals,              \* number of live setInterval timers
    pendingResets,          \* number of scheduled setTimeout(..., 1000) callbacks
    toast,                  \* the most recent react-hot-toast notification
    lastOp,                 \* history: the handler that ran last, with its input
    lastOutcome,            \* history: how the latest request ended, if it has
    urlsCreated,            \* number of URL.createObjectURL calls so far
    urlsRevoked,            \* the URLs handed to URL.revokeObjectURL so far
    \* ---- components/audio-player.tsx : the <audio> element behind audioRef
    audioEl,
    \* ---- backend: Raaga Matcher
    raagaNotes,             \* the note sequence handed to detectRaaga (degrees)
    raagaResult,            \* what detectRaaga returned for raagaNotes
    \* ---- backend: Swaram Mapper / Gamakam Classifier
    frames,                 \* the PitchFrame sequence (one per hop)
    labels,                 \* per frame: the ToneMap entry it was assigned, if any
    notes,                  \* the SwaramNote sequence the mapper emitted
    annotated,              \* the notes after the Gamakam Classifier
    \* ---- backend: transcribe() boundary
    pipe                    \* the request being processed by the pipeline

storeVars == <<audioFile, audioUrl, isTranscribing, transcriptionProgress,
               transcriptionResult, raagaInfo, lyrics, currentTime, isPlaying,
               duration>>
clientVars == <<inFlight, uploaded, intervals, pendingResets, toast, lastOp,
                lastOutcome, urlsCreated, urlsRevoked>>
playerVars == <<audioEl>>
raagaVars == <<raagaNotes, raagaResult>>
mapperVars == <<frames, labels, notes, annotated>>
vars == <<storeVars, clientVars, playerVars, raagaVars, mapperVars, pipe>>

-----------------------------------------------------------------------------
(* Values *)

\* JavaScript null for the string- and object-valued fields
Null == "null"

\* a nullable list: None is null, Some(<<>>) is the (truthy) empty array
None == <<>>
Some(x) == <<x>>
IsSome(o) == o # None
TheValue(o) == o[1]

\* transcriptionProgress holds a number, or the updater function handed to
\* setTranscriptionProgress by the progress interval
Num(n) == [kind |-> "number", value |-> n]
UpdaterFn == [kind |-> "function", value |-> 0]

Toast(kind, msg) == [kind |-> kind, msg |-> msg]
NoToast == Toast("none", "none")

Note(s, e, sw, oct) == [start |-> s, end |-> e, swaram |-> sw, octave |-> oct]

-----------------------------------------------------------------------------
(* Bounds of the client model *)

MaxIntervals == 2
MaxResets == 2
MaxUrls == 3

\* files the user may drop: name extension, MIME type, size in MB, and the
\* length of the audio in seconds
Files == {
    [id |-> "song.mp3", ext |-> ".mp3", type |-> "audio/mpeg", sizeMB |-> 7,
     seconds |-> 12],
    [id |-> "clip.wav", ext |-> ".wav", type |-> "", sizeMB |-> 50, seconds |-> 4],
    [id |-> "take.mpga", ext |-> ".mpga", type |-> "audio/mpeg", sizeMB |-> 1,
     seconds |-> 4],
    [id |-> "notes.txt", ext |-> ".txt", type |-> "text/plain", sizeMB |-> 1,
     seconds |-> 0],
    [id |-> "voice.ogg", ext |-> ".ogg", type |-> "audio/ogg", sizeMB |-> 2,
     seconds |-> 4],
    [id |-> "long.wav", ext |-> ".wav", type |-> "audio/wav", sizeMB |-> 51,
     seconds |-> 12] }

\* response bodies of POST /api/transcribe
SampleNotes == << Note(0, 2, "Sa", "Madhya"), Note(2, 4, "Ri2", "Madhya") >>
SampleLyrics == << [text |-> "sa ri", start |-> 0, end |-> 4] >>
ResponseSwarams == { None, Some(<<>>), Some(SampleNotes) }
ResponseRaaga == { Null, "Mayamalavagowla" }
ResponseLyrics == { None, Some(SampleLyrics) }
UploadPercents == { 0, 25, 50 }

\* the object URLs the browser hands out, a new one at every call
BlobUrls == [n \in 1..MaxUrls |-> "blob:" \o ToString(n)]

\* no <audio> element: AudioPlayer returns null while audioUrl is null
NoAudio ==
    [mounted |-> FALSE, loaded |-> FALSE, paused |-> TRUE, duration |-> 0,
     position |-> 0, startAt |-> 0]

\* a new <audio src={audioUrl}> whose metadata has not loaded yet; duration
\* is the length of the media, which the element learns on loading
MountedAudio(seconds) ==
    [mounted |-> TRUE, loaded |-> FALSE, paused |-> TRUE, duration |-> seconds,
     position |-> 0, startAt |-> 0]

-----------------------------------------------------------------------------
(* store/app-store.ts *)

\* the state created by create<AppState>(...)
StoreInit ==
    /\ audioFile = Null
    /\ audioUrl = Null
    /\ isTranscribing = FALSE
    /\ transcriptionProgress = Num(0)
    /\ transcriptionResult = None
    /\ raagaInfo = Null
    /\ lyrics = None
    /\ currentTime = 0
    /\ isPlaying = FALSE
    /\ duration = 0

ClientInit ==
    /\ inFlight = 0
    /\ uploaded = 0
    /\ intervals = 0
    /\ pendingResets = 0
    /\ toast = NoToast
    /\ lastOp = [op |-> "init"]
    /\ lastOutcome = "none"
    /\ urlsCreated = 0
    /\ urlsRevoked = {}

\* the store's actions; each is set({ field: value })
setAudioFile(file) ==
    /\ audioFile' = file
    /\ lastOp' = [op |-> "setAudioFile"]
    /\ UNCHANGED <<audioUrl, isTranscribing, transcriptionProgress,
                   transcriptionResult, raagaInfo, lyrics, currentTime, isPlaying,
                   duration>>

setAudioUrl(url) ==
    /\ audioUrl' = url
    /\ lastOp' = [op |-> "setAudioUrl"]
    /\ UNCHANGED <<audioFile, isTranscribing, transcriptionProgress,
                   transcriptionResult, raagaInfo, lyrics, currentTime, isPlaying,
                   duration>>

setTranscribing(value) ==
    /\ isTranscribing' = value
    /\ lastOp' = [op |-> "setTranscribing"]
    /\ UNCHANGED <<audioFile, audioUrl, transcriptionProgress, transcriptionResult,
                   raagaInfo, lyrics, currentTime, isPlaying, duration>>

setTranscriptionProgress(progress) ==
    /\ transcriptionProgress' = progress
    /\ lastOp' = [op |-> "setTranscriptionProgress"]
    /\ UNCHANGED <<audioFile, audioUrl, isTranscribing, transcriptionResult,
                   raagaInfo, lyrics, currentTime, isPlaying, duration>>

setTranscriptionResult(result) ==
    /\ transcriptionResult' = result
    /\ lastOp' = [op |-> "setTranscriptionResult"]
    /\ UNCHANGED <<audioFile, audioUrl, isTranscribing, transcriptionProgress,
                   raagaInfo, lyrics, currentTime, isPlaying, duration>>

setRaagaInfo(info) ==
    /\ raagaInfo' = info
    /\ lastOp' = [op |-> "setRaagaInfo"]
    /\ UNCHANGED <<audioFile, audioUrl, isTranscribing, transcriptionProgress,
                   transcriptionResult, lyrics, currentTime, isPlaying, duration>>

setLyrics(value) ==
    /\ lyrics' = value
    /\ lastOp' = [op |-> "setLyrics"]
    /\ UNCHANGED <<audioFile, audioUrl, isTranscribing, transcriptionProgress,
                   transcriptionResult, raagaInfo, currentTime, isPlaying, duration>>

setCurrentTime(time) ==
    /\ currentTime' = time
    /\ lastOp' = [op |-> "setCurrentTime"]
    /\ UNCHANGED <<audioFile, audioUrl, isTranscribing, transcriptionProgress,
                   transcriptionResult, raagaInfo, lyrics, isPlaying, duration>>

setIsPlaying(value) ==
    /\ isPlaying' = value
    /\ lastOp' = [op |-> "setIsPlaying"]
    /\ UNCHANGED <<audioFile, audioUrl, isTranscribing, transcriptionProgress,
                   transcriptionResult, raagaInfo, lyrics, currentTime, duration>>

setDuration(value) ==
    /\ duration' = value
    /\ lastOp' = [op |-> "setDuration"]
    /\ UNCHANGED <<audioFile, audioUrl, isTranscribing, transcriptionProgress,
                   transcriptionResult, raagaInfo, lyrics, currentTime, isPlaying>>

\* reset: set({ ...every field at its initial value }); lastOp counts the
\* resets called in a row (1, or 2 for two or more)
reset_KeepsDuration ==
    /\ audioFile' = Null
    /\ audioUrl' = Null
    /\ isTranscribing' = FALSE
    /\ transcriptionProgress' = Num(0)
    /\ transcriptionResult' = None
    /\ raagaInfo' = Null
    /\ lyrics' = None
    /\ currentTime' = 0
    /\ isPlaying' = FALSE
    /\ duration' = duration
    /\ lastOp' = [op |-> "reset",
                  times |-> IF lastOp.op = "reset" THEN 2 ELSE 1]
reset ==
    /\ audioFile' = Null
    /\ audioUrl' = Null
    /\ isTranscribing' = FALSE
    /\ transcriptionProgress' = Num(0)
    /\ transcriptionResult' = None
    /\ raagaInfo' = Null
    /\ lyrics' = None
    /\ currentTime' = 0
    /\ isPlaying' = FALSE
    /\ duration' = 0
    /\ lastOp' = [op |-> "reset",
                  times |-> IF lastOp.op = "reset" THEN 2 ELSE 1]

\* the values the setters are called with
StoredFiles == {Null, "song.mp3"}
StoredUrls == {Null, "blob:1"}
StoredProgress == {Num(0), Num(50), UpdaterFn}
StoredTimes == {0, 3}
StoredDurations == {0, 12}

-----------------------------------------------------------------------------
(* components/file-upload.tsx *)

ValidTypes == {"audio/mpeg", "audio/mp3", "audio/wav", "audio/midi", "audio/x-midi"}
ValidExtensions == {".mp3", ".wav", ".mid", ".midi"}
MaxSizeMB == 50

isValidType_AcceptAll(file) == TRUE
isValidType(file) == file.type \in ValidTypes \/ file.ext \in ValidExtensions

\* URL.createObjectURL(file): a URL the browser has not handed out before
createObjectURL(file) == BlobUrls[urlsCreated + 1]

\* onDrop: the dropzone is rendered only while no file is loaded and is
\* disabled while a transcription runs; with audioUrl set, AudioPlayer
\* renders a new <audio> element
onDrop(file) ==
    /\ audioFile = Null
    /\ ~isTranscribing
    /\ urlsCreated < MaxUrls
    /\ lastOp' = [op |-> "onDrop", file |-> file.id]
    /\ IF ~isValidType(file)
         THEN /\ toast' = Toast("error", "invalid type")
              /\ UNCHANGED <<audioFile, audioUrl, urlsCreated, audioEl>>
         ELSE IF file.sizeMB > MaxSizeMB
         THEN /\ toast' = Toast("error", "too large")
              /\ UNCHANGED <<audioFile, audioUrl, urlsCreated, audioEl>>
         ELSE /\ audioFile' = file.id
              /\ audioUrl' = createObjectURL(file)
              /\ urlsCreated' = urlsCreated + 1
              /\ audioEl' = MountedAudio(file.seconds)
              /\ toast' = Toast("success", "uploaded")
    /\ UNCHANGED <<isTranscribing, transcriptionProgress, transcriptionResult,
                   raagaInfo, lyrics, currentTime, isPlaying, duration, inFlight,
                   uploaded,
                   intervals, pendingResets, lastOutcome, urlsRevoked>>

\* handleRemove: the remove button is rendered for a loaded file while no
\* transcription runs; with audioUrl null the <audio> element is unmounted
handleRemove_DuringTranscription ==
    /\ audioFile # Null
    /\ urlsRevoked' = IF audioUrl # Null THEN urlsRevoked \cup {audioUrl}
                      ELSE urlsRevoked
    /\ audioFile' = Null
    /\ audioUrl' = Null
    /\ audioEl' = NoAudio
    /\ lastOp' = [op |-> "handleRemove"]
    /\ UNCHANGED <<isTranscribing, transcriptionProgress, transcriptionResult,
                   raagaInfo, lyrics, currentTime, isPlaying, duration, inFlight,
                   uploaded,
                   intervals, pendingResets, toast, lastOutcome, urlsCreated>>
handleRemove_NoRevoke ==
    /\ audioFile # Null
    /\ ~isTranscribing
    /\ audioFile' = Null
    /\ audioUrl' = Null
    /\ audioEl' = NoAudio
    /\ lastOp' = [op |-> "handleRemove"]
    /\ UNCHANGED <<isTranscribing, transcriptionProgress, transcriptionResult,
                   raagaInfo, lyrics, currentTime, isPlaying, duration, inFlight,
                   uploaded,
                   intervals, pendingResets, toast, lastOutcome, urlsCreated,
                   urlsRevoked>>
handleRemove ==
    /\ audioFile # Null
    /\ ~isTranscribing
    /\ urlsRevoked' = IF audioUrl # Null THEN urlsRevoked \cup {audioUrl}
                      ELSE urlsRevoked
    /\ audioFile' = Null
    /\ audioUrl' = Null
    /\ audioEl' = NoAudio
    /\ lastOp' = [op |-> "handleRemove"]
    /\ UNCHANGED <<isTranscribing, transcriptionProgress, transcriptionResult,
                   raagaInfo, lyrics, currentTime, isPlaying, duration, inFlight,
                   uploaded,
                   intervals, pendingResets, toast, lastOutcome, urlsCreated>>

-----------------------------------------------------------------------------
(* app/page.tsx : handleTranscribe *)

\* handleTranscribe called with no file: toast.error and return
handleTranscribeNoFile_NoGuard ==
    /\ audioFile = Null
    /\ ~isTranscribing
    /\ intervals < MaxIntervals
    /\ isTranscribing' = TRUE
    /\ transcriptionProgress' = Num(0)
    /\ intervals' = intervals + 1
    /\ inFlight' = inFlight + 1
    /\ uploaded' = 0
    /\ lastOutcome' = "pending"
    /\ lastOp' = [op |-> "handleTranscribe", sent |-> TRUE]
    /\ UNCHANGED <<audioFile, audioUrl, transcriptionResult, raagaInfo, lyrics,
                   currentTime, isPlaying, duration, pendingResets, toast,
                   urlsCreated, urlsRevoked, audioEl>>
handleTranscribeNoFile ==
    /\ audioFile = Null
    /\ ~isTranscribing
    /\ toast' = Toast("error", "no file")
    /\ lastOp' = [op |-> "handleTranscribe", sent |-> FALSE]
    /\ UNCHANGED <<storeVars, inFlight, uploaded, intervals, pendingResets, lastOutcome,
                   urlsCreated, urlsRevoked, audioEl>>

\* handleTranscribe up to its await: setTranscribing(true),
\* setTranscriptionProgress(0), setInterval(..., 500), axios.post(...)
\* (the Transcribe button is disabled while isTranscribing)
handleTranscribeStart_ButtonEnabled ==
    /\ audioFile # Null
    /\ intervals < MaxIntervals
    /\ pendingResets < MaxResets
    /\ isTranscribing' = TRUE
    /\ transcriptionProgress' = Num(0)
    /\ intervals' = intervals + 1
    /\ inFlight' = inFlight + 1
    /\ uploaded' = 0
    /\ lastOutcome' = "pending"
    /\ lastOp' = [op |-> "handleTranscribe", sent |-> TRUE]
    /\ UNCHANGED <<audioFile, audioUrl, transcriptionResult, raagaInfo, lyrics,
                   currentTime, isPlaying, duration, pendingResets, toast,
                   urlsCreated, urlsRevoked, audioEl>>
handleTranscribeStart ==
    /\ audioFile # Null
    /\ ~isTranscribing
    /\ intervals < MaxIntervals
    /\ pendingResets < MaxResets
    /\ isTranscribing' = TRUE
    /\ transcriptionProgress' = Num(0)
    /\ intervals' = intervals + 1
    /\ inFlight' = inFlight + 1
    /\ uploaded' = 0
    /\ lastOutcome' = "pending"
    /\ lastOp' = [op |-> "handleTranscribe", sent |-> TRUE]
    /\ UNCHANGED <<audioFile, audioUrl, transcriptionResult, raagaInfo, lyrics,
                   currentTime, isPlaying, duration, pendingResets, toast,
                   urlsCreated, urlsRevoked, audioEl>>

\* one firing of a live progress interval: the callback hands an updater
\* function to setTranscriptionProgress, and the store's setter stores its
\* argument as it is (the updater is never called, so neither is the
\* clearInterval inside it)
progressIntervalTick ==
    /\ intervals > 0
    /\ transcriptionProgress' = UpdaterFn
    /\ lastOp' = [op |-> "progressInterval"]
    /\ UNCHANGED <<audioFile, audioUrl, isTranscribing, transcriptionResult,
                   raagaInfo, lyrics, currentTime, isPlaying, duration, inFlight,
                   uploaded,
                   intervals, pendingResets, toast, lastOutcome, urlsCreated,
                   urlsRevoked, audioEl>>

\* onUploadProgress with progressEvent.total set:
\* percentCompleted = Math.round(loaded * 50 / total); loaded never goes
\* back while one request is uploading
onUploadProgress_FullScale(percentCompleted) ==
    /\ inFlight > 0
    /\ percentCompleted >= uploaded
    /\ uploaded' = percentCompleted
    /\ transcriptionProgress' = Num(2 * percentCompleted)
    /\ lastOp' = [op |-> "onUploadProgress", percent |-> percentCompleted]
    /\ UNCHANGED <<audioFile, audioUrl, isTranscribing, transcriptionResult,
                   raagaInfo, lyrics, currentTime, isPlaying, duration, inFlight,
                   intervals, pendingResets, toast, lastOutcome, urlsCreated,
                   urlsRevoked, audioEl>>
onUploadProgress(percentCompleted) ==
    /\ inFlight > 0
    /\ percentCompleted >= uploaded
    /\ uploaded' = percentCompleted
    /\ transcriptionProgress' = Num(percentCompleted)
    /\ lastOp' = [op |-> "onUploadProgress", percent |-> percentCompleted]
    /\ UNCHANGED <<audioFile, audioUrl, isTranscribing, transcriptionResult,
                   raagaInfo, lyrics, currentTime, isPlaying, duration, inFlight,
                   intervals, pendingResets, toast, lastOutcome, urlsCreated,
                   urlsRevoked, audioEl>>

\* if (response.data.swarams): null and undefined are falsy, every array
\* (the empty one too) is truthy
swaramsTruthy_NonEmptyOnly(data) ==
    IsSome(data.swarams) /\ Len(TheValue(data.swarams)) > 0
swaramsTruthy(data) == IsSome(data.swarams)

\* the rest of the try block after a 2xx response, then finally
responseSuccess(data) ==
    /\ inFlight > 0
    /\ inFlight' = inFlight - 1
    /\ uploaded' = 0
    /\ intervals' = intervals - 1                   \* clearInterval(progressInterval)
    /\ transcriptionProgress' = Num(100)
    /\ transcriptionResult' =
          IF swaramsTruthy(data) THEN data.swarams ELSE transcriptionResult
    /\ raagaInfo' = IF data.raaga # Null THEN data.raaga ELSE raagaInfo
    /\ lyrics' = IF IsSome(data.lyrics) THEN data.lyrics ELSE lyrics
    /\ toast' =
          IF IsSome(data.swarams) /\ Len(TheValue(data.swarams)) > 0
            THEN Toast("success", "completed")
            ELSE Toast("success", "completed, no swarams")
    /\ pendingResets' = pendingResets + 1           \* setTimeout(..., 1000)
    /\ isTranscribing' = FALSE                      \* finally
    /\ lastOutcome' = "success"
    /\ lastOp' = [op |-> "response", data |-> data]
    /\ UNCHANGED <<audioFile, audioUrl, currentTime, isPlaying, duration,
                   urlsCreated, urlsRevoked, audioEl>>

\* the catch block (HTTP error, network error or the 300 s timeout), then
\* finally; progressInterval is out of scope here and is not cleared
responseFailure_NoFinally ==
    /\ inFlight > 0
    /\ inFlight' = inFlight - 1
    /\ uploaded' = 0
    /\ toast' = Toast("error", "failed")
    /\ transcriptionProgress' = Num(0)
    /\ lastOutcome' = "failure"
    /\ lastOp' = [op |-> "failure"]
    /\ UNCHANGED <<audioFile, audioUrl, isTranscribing, transcriptionResult,
                   raagaInfo, lyrics, currentTime, isPlaying, duration, intervals,
                   pendingResets, urlsCreated, urlsRevoked, audioEl>>
responseFailure ==
    /\ inFlight > 0
    /\ inFlight' = inFlight - 1
    /\ uploaded' = 0
    /\ toast' = Toast("error", "failed")
    /\ transcriptionProgress' = Num(0)
    /\ isTranscribing' = FALSE                      \* finally
    /\ lastOutcome' = "failure"
    /\ lastOp' = [op |-> "failure"]
    /\ UNCHANGED <<audioFile, audioUrl, transcriptionResult, raagaInfo, lyrics,
                   currentTime, isPlaying, duration, intervals, pendingResets,
                   urlsCreated, urlsRevoked, audioEl>>

\* the callback of setTimeout(() => setTranscriptionProgress(0), 1000)
delayedProgressReset ==
    /\ pendingResets > 0
    /\ pendingResets' = pendingResets - 1
    /\ transcriptionProgress' = Num(0)
    /\ lastOp' = [op |-> "delayedReset"]
    /\ UNCHANGED <<audioFile, audioUrl, isTranscribing, transcriptionResult,
                   raagaInfo, lyrics, currentTime, isPlaying, duration, inFlight,
                   uploaded,
                   intervals, toast, lastOutcome, urlsCreated, urlsRevoked,
                   audioEl>>

-----------------------------------------------------------------------------
(* components/swaram-display.tsx, components/lyrics-display.tsx *)

MaxTime == 4
MaxShownNotes == 2

\* Array.prototype.findIndex from index i (0-based): the first index whose
\* entry satisfies currentTime >= entry.start && currentTime <= entry.end,
\* or -1
RECURSIVE findIndexFrom_Last(_, _, _)
findIndexFrom_Last(list, t, i) ==
    IF i >= Len(list) THEN -1
    ELSE LET later == findIndexFrom_Last(list, t, i + 1)
         IN  IF later >= 0 THEN later
             ELSE IF t >= list[i + 1].start /\ t <= list[i + 1].end THEN i
             ELSE -1
RECURSIVE findIndexFrom(_, _, _)
findIndexFrom(list, t, i) ==
    IF i >= Len(list) THEN -1
    ELSE IF t >= list[i + 1].start /\ t <= list[i + 1].end THEN i
    ELSE findIndexFrom(list, t, i + 1)

\* getCurrentSwaram(): number | null   (None is null)
getCurrentSwaram ==
    IF ~IsSome(transcriptionResult) THEN None
    ELSE LET index == findIndexFrom(TheValue(transcriptionResult), currentTime, 0)
         IN  IF index >= 0 THEN Some(index) ELSE None

\* the early return of SwaramDisplay that renders the placeholder card
showsPlaceholder ==
    ~IsSome(transcriptionResult) \/ Len(TheValue(transcriptionResult)) = 0

\* the indices of the swaram cards rendered with isActive
\* (index === currentIndex)
activeSwarams ==
    IF showsPlaceholder THEN {}
    ELSE { index \in 0..(Len(TheValue(transcriptionResult)) - 1) :
             getCurrentSwaram = Some(index) }

\* getCurrentLyrics(): number | null
getCurrentLyrics ==
    IF ~IsSome(lyrics) THEN None
    ELSE LET index == findIndexFrom(TheValue(lyrics), currentTime, 0)
         IN  IF index >= 0 THEN Some(index) ELSE None

\* the early return of LyricsDisplay that renders the placeholder card
showsLyricsPlaceholder == ~IsSome(lyrics) \/ Len(TheValue(lyrics)) = 0

\* the indices of the lyric lines rendered with isActive
activeLyrics ==
    IF showsLyricsPlaceholder THEN {}
    ELSE { index \in 0..(Len(TheValue(lyrics)) - 1) : getCurrentLyrics = Some(index) }

\* note lists as the backend serialises them: in time order, start < end,
\* no overlap (times in ticks)
SwaramNames == <<"Sa", "Ri2", "Ga3", "Ma1">>
TimedNoteLists ==
    { l \in UNION { [1..n -> { Note(a, b, "Sa", "Madhya") :
                                 a \in 0..MaxTime, b \in 0..MaxTime }] :
                    n \in 0..MaxShownNotes } :
        /\ \A i \in 1..Len(l) : l[i].start < l[i].end
        /\ \A i \in 1..(Len(l) - 1) : l[i].end <= l[i + 1].start }
LabelNotes(l) == [i \in 1..Len(l) |-> [l[i] EXCEPT !.swaram = SwaramNames[i]]]
ShownResults == {None} \cup { Some(LabelNotes(l)) : l \in TimedNoteLists }

\* lyric lists on screen: none, empty, one line, two lines that touch, two
\* lines with a gap
ShownLyrics ==
    { None, Some(<<>>), Some(SampleLyrics),
      Some(<< [text |-> "sa", start |-> 0, end |-> 2],
              [text |-> "ri", start |-> 2, end |-> 4] >>),
      Some(<< [text |-> "sa", start |-> 0, end |-> 1],
              [text |-> "ri", start |-> 3, end |-> 4] >>) }

-----------------------------------------------------------------------------
(* components/audio-player.tsx *)

SkipSeconds == 5

Min(a, b) == IF a < b THEN a ELSE b
Max(a, b) == IF a > b THEN a ELSE b

\* reading audio.currentTime: the playback position, or before the metadata
\* has loaded the default playback start position
AudioCurrentTime == IF audioEl.loaded THEN audioEl.position ELSE audioEl.startAt

\* assigning audio.currentTime: a seek, which the browser clamps to the
\* media; before the metadata has loaded the value is kept as the default
\* playback start position
SetAudioCurrentTime(t) ==
    IF audioEl.loaded
    THEN [audioEl EXCEPT !.position = Max(0, Min(t, audioEl.duration))]
    ELSE [audioEl EXCEPT !.startAt = Max(0, t)]

\* the loadedmetadata event: the element now knows its duration and moves to
\* the default playback start position; handleLoadedMetadata stores the
\* duration
handleLoadedMetadata ==
    /\ audioEl.mounted /\ ~audioEl.loaded
    /\ audioEl' = [audioEl EXCEPT !.loaded = TRUE,
                                  !.position = Min(audioEl.startAt, audioEl.duration)]
    /\ duration' = audioEl.duration
    /\ lastOp' = [op |-> "loadedmetadata"]
    /\ UNCHANGED <<audioFile, audioUrl, isTranscribing, transcriptionProgress,
                   transcriptionResult, raagaInfo, lyrics, currentTime, isPlaying>>

\* handleTimeUpdate: setCurrentTime(audio.currentTime)
handleTimeUpdate(t) ==
    /\ currentTime' = t
    /\ UNCHANGED <<audioFile, audioUrl, isTranscribing, transcriptionProgress,
                   transcriptionResult, raagaInfo, lyrics, isPlaying, duration>>

\* handleEnded: setIsPlaying(false), setCurrentTime(0)
handleEnded ==
    /\ isPlaying' = FALSE
    /\ currentTime' = 0
    /\ UNCHANGED <<audioFile, audioUrl, isTranscribing, transcriptionProgress,
                   transcriptionResult, raagaInfo, lyrics, duration>>

\* the media plays on by one second
playOn ==
    /\ audioEl.loaded /\ ~audioEl.paused
    /\ audioEl.position < audioEl.duration
    /\ audioEl' = [audioEl EXCEPT !.position = @ + 1]
    /\ lastOp' = [op |-> "playing"]
    /\ UNCHANGED storeVars

\* the media reached its end: the element pauses and fires ended
audioEnded ==
    /\ audioEl.loaded /\ ~audioEl.paused
    /\ audioEl.position = audioEl.duration
    /\ audioEl' = [audioEl EXCEPT !.paused = TRUE]
    /\ lastOp' = [op |-> "ended"]
    /\ handleEnded

\* togglePlayPause: audio.pause() or audio.play(), then setIsPlaying(!isPlaying);
\* play() on media that has ended starts it again from 0
togglePlayPause ==
    /\ audioEl.mounted
    /\ audioEl' =
          IF isPlaying THEN [audioEl EXCEPT !.paused = TRUE]
          ELSE [audioEl EXCEPT !.paused = FALSE,
                               !.position = IF audioEl.loaded /\ @ = audioEl.duration
                                            THEN 0 ELSE @]
    /\ isPlaying' = ~isPlaying
    /\ lastOp' = [op |-> "togglePlayPause"]
    /\ UNCHANGED <<audioFile, audioUrl, isTranscribing, transcriptionProgress,
                   transcriptionResult, raagaInfo, lyrics, currentTime, duration>>

\* skipBackward: audio.currentTime = Math.max(0, audio.currentTime - 5)
skipBackward ==
    /\ audioEl.mounted
    /\ audioEl' = SetAudioCurrentTime(Max(0, AudioCurrentTime - SkipSeconds))
    /\ lastOp' = [op |-> "skipBackward", from |-> AudioCurrentTime]
    /\ UNCHANGED storeVars

\* skipForward: audio.currentTime = Math.min(duration, audio.currentTime + 5)
\* with the store's duration
skipForward ==
    /\ audioEl.mounted
    /\ audioEl' = SetAudioCurrentTime(Min(duration, AudioCurrentTime + SkipSeconds))
    /\ lastOp' = [op |-> "skipForward", from |-> AudioCurrentTime]
    /\ UNCHANGED storeVars

\* handleSeek: audio.currentTime = percentage * duration for a click at
\* percent/100 of the progress bar's width
SeekPercents == {0, 50, 100}
handleSeek(percent) ==
    /\ audioEl.mounted
    /\ audioEl' = SetAudioCurrentTime((percent * duration) \div 100)
    /\ lastOp' = [op |-> "handleSeek", percent |-> percent]
    /\ UNCHANGED storeVars

-----------------------------------------------------------------------------
(* backend/api/raaga_detector.py : the Raaga Matcher (design spec 4.4) *)

MaxNotes == 5

\* the scale degrees the checked note sequences are drawn from
NoteAlphabet == {"Sa", "Ri1", "Ga2", "Ga3", "Ma2"}

\* the raaga catalog, in declaration order
RaagaCatalog == <<
    [name |-> "Mayamalavagowla", system |-> "Carnatic",
     arohana   |-> <<"Sa", "Ri1", "Ga3", "Ma1", "Pa", "Da1", "Ni3", "Sa">>,
     avarohana |-> <<"Sa", "Ni3", "Da1", "Pa", "Ma1", "Ga3", "Ri1", "Sa">>],
    [name |-> "Shankarabharanam", system |-> "Carnatic",
     arohana   |-> <<"Sa", "Ri2", "Ga3", "Ma1", "Pa", "Da2", "Ni3", "Sa">>,
     avarohana |-> <<"Sa", "Ni3", "Da2", "Pa", "Ma1", "Ga3", "Ri2", "Sa">>],
    [name |-> "Kalyani", system |-> "Carnatic",
     arohana   |-> <<"Sa", "Ri2", "Ga3", "Ma2", "Pa", "Da2", "Ni3", "Sa">>,
     avarohana |-> <<"Sa", "Ni3", "Da2", "Pa", "Ma2", "Ga3", "Ri2", "Sa">>],
    [name |-> "Mohanam", system |-> "Carnatic",
     arohana   |-> <<"Sa", "Ri2", "Ga3", "Pa", "Da2", "Sa">>,
     avarohana |-> <<"Sa", "Da2", "Pa", "Ga3", "Ri2", "Sa">>] >>

Range(f) == { f[i] : i \in DOMAIN f }
Reverse(q) == [i \in 1..Len(q) |-> q[Len(q) + 1 - i]]

\* exact fractions <<numerator, denominator>>, denominator > 0
FracLess(a, b) == a[1] * b[2] < b[1] * a[2]
FracGeq(a, b) == ~FracLess(a, b)
FracMax(a, b) == IF FracLess(a, b) THEN b ELSE a

\* step 1: the scale degrees used, in first-occurrence order
FirstOccurrenceOrder(q) ==
    LET firsts == { i \in 1..Len(q) : \A j \in 1..(i - 1) : q[j] # q[i] }
    IN  [k \in 1..Cardinality(firsts) |->
            q[CHOOSE i \in firsts :
                  Cardinality({ j \in firsts : j < i }) = k - 1]]

\* the longest-common-subsequence table, row by row: LcsRow extends row i of
\* the table (row holds its columns computed so far) to all columns of y,
\* from row i-1 (prev) and the element x[i]
RECURSIVE LcsRow(_, _, _, _)
LcsRow(prev, xi, y, row) ==
    IF Len(row) = Len(y) THEN row
    ELSE LET j == Len(row) + 1
             up == prev[j]
             left == IF j = 1 THEN 0 ELSE row[j - 1]
             diag == IF j = 1 THEN 0 ELSE prev[j - 1]
         IN  LcsRow(prev, xi, y,
                    Append(row, IF xi = y[j] THEN diag + 1
                                ELSE IF up >= left THEN up ELSE left))

\* rows i..Len(x) of the table, given row i-1 (prev); the result is the last row
RECURSIVE LcsRows(_, _, _, _)
LcsRows(x, y, i, prev) ==
    IF i > Len(x) THEN prev
    ELSE LcsRows(x, y, i + 1, LcsRow(prev, x[i], y, <<>>))

\* length of the longest common subsequence of x and y
LcsLen(x, y) ==
    IF Len(y) = 0 THEN 0
    ELSE LcsRows(x, y, 1, [j \in 1..Len(y) |-> 0])[Len(y)]

\* step 2a: degrees shared by the observed set and the candidate's declared
\* degrees, over all degrees either of them uses
OverlapScore_CountsUpperSa(order, c) ==
    LET observed == Range(order)
        declared == Range(c.arohana) \cup Range(c.avarohana)
    IN  << Cardinality(observed \cap declared), Len(c.arohana) >>
OverlapScore(order, c) ==
    LET observed == Range(order)
        declared == Range(c.arohana) \cup Range(c.avarohana)
    IN  << Cardinality(observed \cap declared), Cardinality(observed \cup declared) >>

\* step 2b: LCS ratio against the arohana and against the reversed avarohana,
\* the better of the two
PatternScore(order, c) ==
    LET up == c.arohana
        down == Reverse(c.avarohana)
    IN  FracMax( << LcsLen(order, up), Len(up) >>,
                 << LcsLen(order, down), Len(down) >> )

\* step 3: score = 0.6 * overlapScore + 0.4 * patternScore
CombinedScore(order, c) ==
    LET o == OverlapScore(order, c)
        p == PatternScore(order, c)
    IN  << 6 * o[1] * p[2] + 4 * p[1] * o[2], 10 * o[2] * p[2] >>

\* the minimum confidence, in percent
MinConfidencePercent == 30

MeetsThreshold_Strict(score) == FracLess(<<MinConfidencePercent, 100>>, score)
MeetsThreshold_None(score) == score[2] > 0
MeetsThreshold(score) == FracGeq(score, <<MinConfidencePercent, 100>>)

\* step 4: the index of the maximum-scoring candidate among the first k of
\* the catalog; a later candidate replaces the best only with a greater score
RECURSIVE BestCandidate_LastWins(_, _)
BestCandidate_LastWins(scores, k) ==
    IF k = 1 THEN 1
    ELSE LET b == BestCandidate_LastWins(scores, k - 1)
         IN  IF FracGeq(scores[k], scores[b]) THEN k ELSE b
RECURSIVE BestCandidate(_, _)
BestCandidate(scores, k) ==
    IF k = 1 THEN 1
    ELSE LET b == BestCandidate(scores, k - 1)
         IN  IF FracLess(scores[b], scores[k]) THEN k ELSE b

\* the combined score of every catalog candidate, in catalog order
CandidateScores(q) ==
    LET order == FirstOccurrenceOrder(q)
    IN  [i \in 1..Len(RaagaCatalog) |-> CombinedScore(order, RaagaCatalog[i])]

RaagaMatch(i, score) ==
    [index |-> i, name |-> RaagaCatalog[i].name, confidence |-> score]

\* detectRaaga(notes): None is "no match"
detectRaaga(q) ==
    LET scores == CandidateScores(q)
        best == BestCandidate(scores, Len(RaagaCatalog))
    IN  IF MeetsThreshold(scores[best])
          THEN Some(RaagaMatch(best, scores[best]))
          ELSE None

\* the caller appends one more transcribed note and matches again
AppendNote(d) ==
    /\ Len(raagaNotes) < MaxNotes
    /\ raagaNotes' = Append(raagaNotes, d)
    /\ raagaResult' = detectRaaga(raagaNotes')

\* a performance of a catalog raaga's scale: ascent then descent, descent
\* then ascent, or either of them twice
ScalePhrases ==
    UNION { { RaagaCatalog[i].arohana \o RaagaCatalog[i].avarohana,
              RaagaCatalog[i].avarohana \o RaagaCatalog[i].arohana,
              RaagaCatalog[i].arohana \o RaagaCatalog[i].arohana,
              RaagaCatalog[i].avarohana \o RaagaCatalog[i].avarohana } :
            i \in DOMAIN RaagaCatalog }

\* the caller transcribed the next note of the phrase and matches again
PlayPhraseNote(phrase) ==
    /\ Len(raagaNotes) < Len(phrase)
    /\ raagaNotes = SubSeq(phrase, 1, Len(raagaNotes))
    /\ raagaNotes' = Append(raagaNotes, phrase[Len(raagaNotes) + 1])
    /\ raagaResult' = detectRaaga(raagaNotes')

-----------------------------------------------------------------------------
(* backend/api/transcriber.py : the Swaram Mapper (design spec 4.2) *)

MaxFrames == 5

\* Pitch is kept on the cent axis, in hundredths of a cent above Mandra Sa
\* (1200 * log2(f / tonic) + 1200, times 100), so that 10.00 and 10.01 cents
\* are both exact; time is counted in analysis hops (512 / 44100 s).
ScaleDegrees == <<"Sa", "Ri1", "Ri2", "Ga2", "Ga3", "Ma1", "Ma2", "Pa",
                  "Da1", "Da2", "Ni2", "Ni3">>
Octaves == <<"Mandra", "Madhya", "Tara">>

\* the just-intonation ratios 1, 16/15, 9/8, 6/5, 5/4, 4/3, 45/32, 3/2, 8/5,
\* 5/3, 9/5, 15/8 in hundredths of a cent
DegreeCents == <<0, 11173, 20391, 31564, 38631, 49804, 59022, 70196,
                 81369, 88436, 101760, 108827>>
OctaveCents == 120000

\* the ToneMap, ordered by (octave, degree)
ToneMap ==
    [k \in 1..(Len(Octaves) * Len(ScaleDegrees)) |->
        LET o == (k - 1) \div Len(ScaleDegrees)
            d == ((k - 1) % Len(ScaleDegrees)) + 1
        IN  [swaram |-> ScaleDegrees[d], octave |-> Octaves[o + 1],
             cents |-> o * OctaveCents + DegreeCents[d]]]

\* the tolerance, +-10 cents
ToleranceCents == 1000

Abs(x) == IF x < 0 THEN -x ELSE x
CentDistance(pitch, entry) == Abs(pitch - entry.cents)

\* the index of the ToneMap entry nearest to pitch (the first such entry in
\* the map's order, should two be equally near)
NearestEntry(pitch) ==
    LET dist == [k \in DOMAIN ToneMap |-> CentDistance(pitch, ToneMap[k])]
    IN  CHOOSE k \in DOMAIN ToneMap :
            \A j \in DOMAIN ToneMap : dist[k] < dist[j] \/ (dist[k] = dist[j] /\ k <= j)

WithinTolerance_Exclusive(distance) == distance < ToleranceCents
WithinTolerance(distance) == distance <= ToleranceCents

\* _frequency_to_swaram: the nearest entry if within tolerance, else nothing;
\* an unvoiced frame has no frequency and is assigned nothing
FrequencyToSwaram(frame) ==
    IF ~frame.voiced THEN None
    ELSE LET e == ToneMap[NearestEntry(frame.pitch)]
         IN  IF WithinTolerance(CentDistance(frame.pitch, e)) THEN Some(e) ELSE None

AssignLabels(fs) == [i \in 1..Len(fs) |-> FrequencyToSwaram(fs[i])]

\* a note opened by accepted frame f with entry e; confidence is kept as the
\* exact mean <<sum of the run's voicing confidences, number of frames>>
SwaramNote(f, e) ==
    [start |-> f.time, end |-> f.time + 1, swaram |-> e.swaram, octave |-> e.octave,
     gamakam |-> Null, confidence |-> <<f.confidence, 1>>]

SameLabel(n, e) == n.swaram = e.swaram /\ n.octave = e.octave

\* the note list after frames 1..k: a frame that was assigned nothing is
\* skipped; an accepted frame with the label of the open (last) note extends
\* it to the frame's time plus one hop, any other accepted frame opens a note
RECURSIVE CollapseRuns_NoMerge(_, _, _)
CollapseRuns_NoMerge(fs, ls, k) ==
    IF k = 0 THEN <<>>
    ELSE LET done == CollapseRuns_NoMerge(fs, ls, k - 1)
         IN  IF ~IsSome(ls[k]) THEN done
             ELSE Append(done, SwaramNote(fs[k], TheValue(ls[k])))
RECURSIVE CollapseRuns(_, _, _)
CollapseRuns(fs, ls, k) ==
    IF k = 0 THEN <<>>
    ELSE LET done == CollapseRuns(fs, ls, k - 1)
         IN  IF ~IsSome(ls[k]) THEN done
             ELSE IF done # <<>> /\ SameLabel(done[Len(done)], TheValue(ls[k]))
               THEN [done EXCEPT ![Len(done)] =
                        [@ EXCEPT !.end = fs[k].time + 1,
                                  !.confidence = <<@[1] + fs[k].confidence, @[2] + 1>>]]
               ELSE Append(done, SwaramNote(fs[k], TheValue(ls[k])))

-----------------------------------------------------------------------------
(* backend/api/transcriber.py : the Gamakam Classifier (design spec 4.3) *)

\* notes shorter than this many hops are never classified
MinGamakamHops == 2
\* kampitam needs more than this many zero crossings
KampitamCrossings == 3
\* the audibility floor of the standard deviation, in hundredths of a cent
AudibilityFloor == 500

\* the frequency (cent position) of the ToneMap entry a note was assigned
EntryCents(note) ==
    ToneMap[CHOOSE k \in DOMAIN ToneMap :
        ToneMap[k].swaram = note.swaram /\ ToneMap[k].octave = note.octave].cents

\* the indices of the frames in the note's span [start, end)
SpanIndices(note) == (note.start + 1)..note.end

\* deviations of the span's voiced frames from the note's centre, in order
RECURSIVE Deviations(_, _, _, _)
Deviations(fs, centre, i, last) ==
    IF i > last THEN <<>>
    ELSE IF fs[i].voiced
      THEN <<fs[i].pitch - centre>> \o Deviations(fs, centre, i + 1, last)
      ELSE Deviations(fs, centre, i + 1, last)

ZeroCrossings(devs) ==
    Cardinality({ k \in 1..(Len(devs) - 1) :
                    \/ devs[k] < 0 /\ devs[k + 1] > 0
                    \/ devs[k] > 0 /\ devs[k + 1] < 0 })

RECURSIVE SumSeq(_)
SumSeq(q) == IF q = <<>> THEN 0 ELSE q[1] + SumSeq(Tail(q))

\* standard deviation of devs > AudibilityFloor, without the square root:
\* n * sum(d^2) - sum(d)^2 > floor^2 * n^2
StdAboveFloor(devs) ==
    LET n == Len(devs)
        squares == [k \in 1..n |-> devs[k] * devs[k]]
    IN  n * SumSeq(squares) - SumSeq(devs) * SumSeq(devs)
            > AudibilityFloor * AudibilityFloor * n * n

\* a silence-free span in which the pitch dips out of tolerance below the
\* note and returns, without a frame assigned to any other entry
DipAndReturn(fs, ls, note) ==
    /\ \A i \in SpanIndices(note) : fs[i].voiced
    /\ \E i \in SpanIndices(note) :
          /\ note.start + 1 < i /\ i < note.end
          /\ ~IsSome(ls[i])
          /\ fs[i].pitch < EntryCents(note)

\* _detect_gamakam: the label for one note, Null for none
DetectGamakam(fs, ls, note) ==
    LET devs == Deviations(fs, EntryCents(note), note.start + 1, note.end)
    IN  IF note.end - note.start < MinGamakamHops THEN Null
        ELSE IF ZeroCrossings(devs) > KampitamCrossings /\ StdAboveFloor(devs)
          THEN "kampitam"
        ELSE IF DipAndReturn(fs, ls, note) THEN "janta"
        ELSE Null

\* the classifier's output for one note
ClassifyNote_RebuildsNote(fs, ls, note) ==
    [start |-> note.start, end |-> note.end, swaram |-> note.swaram,
     octave |-> note.octave, gamakam |-> DetectGamakam(fs, ls, note),
     confidence |-> <<1, 1>>]
ClassifyNote(fs, ls, note) ==
    [note EXCEPT !.gamakam = DetectGamakam(fs, ls, note)]

ClassifyAll(fs, ls, ns) == [n \in 1..Len(ns) |-> ClassifyNote(fs, ls, ns[n])]

\* the pitch frames the checked contours are built from: unvoiced, on Madhya
\* Sa, at +10.00 and +10.01 cents from it, 15 cents below it, on Madhya Ri1
SaCents == 120000
FrameKinds == {
    [voiced |-> FALSE, pitch |-> 0, confidence |-> 0],
    [voiced |-> TRUE, pitch |-> SaCents, confidence |-> 100],
    [voiced |-> TRUE, pitch |-> SaCents + 1000, confidence |-> 80],
    [voiced |-> TRUE, pitch |-> SaCents + 1001, confidence |-> 90],
    [voiced |-> TRUE, pitch |-> SaCents - 1500, confidence |-> 70],
    [voiced |-> TRUE, pitch |-> SaCents + 11173, confidence |-> 60] }

PitchFrame(kind, t) ==
    [time |-> t, voiced |-> kind.voiced, pitch |-> kind.pitch,
     confidence |-> kind.confidence]

\* transcribe() on a signal one hop longer
AppendFrame(kind) ==
    /\ Len(frames) < MaxFrames
    /\ frames' = Append(frames, PitchFrame(kind, Len(frames)))
    /\ labels' = AssignLabels(frames')
    /\ notes' = CollapseRuns(frames', labels', Len(frames'))
    /\ annotated' = ClassifyAll(frames', labels', notes')

-----------------------------------------------------------------------------
(* backend/main.py : one transcription request through the pipeline
   (design spec 7; try/except pattern of CODE_STYLE.md) *)

HttpOk == 200
HttpBadRequest == 400
HttpServerError == 500

\* the analysis stages, in pipeline order
Stages == <<"pitch", "mapper", "gamakam", "raaga">>

\* request inputs: sample buffer length, sample rate, tonic
BufferLengths == {0, 1, 2}
SampleRates == {-44100, 0, 22050, 44100}
Tonics == {-131, 0, 131, 262}

\* no request being processed; lastStatus is the status of the previous
\* response (0 before the first)
PipeStart(lastStatus) ==
    [pc |-> "idle", bufferLen |-> 0, sampleRate |-> 0, tonic |-> 0,
     stagesRun |-> 0, fault |-> Null, outcome |-> Null, status |-> 0,
     failures |-> 0, notesEmpty |-> TRUE, raagaAbsent |-> TRUE,
     lastStatus |-> lastStatus]

InputShapeValid(p) == p.bufferLen > 0 /\ p.sampleRate > 0 /\ p.tonic > 0

\* the boundary's except clauses: ValueError is a validation failure (400),
\* any other exception a processing failure (500)
HandleException_AllValueError(kind) ==
    [outcome |-> "validation", status |-> HttpBadRequest]
HandleException(kind) ==
    IF kind = "ValueError"
    THEN [outcome |-> "validation", status |-> HttpBadRequest]
    ELSE [outcome |-> "processing", status |-> HttpServerError]

\* the request ends with the failure the boundary makes of the exception
Raised(p, kind) ==
    [p EXCEPT !.pc = "done",
              !.outcome = HandleException(kind).outcome,
              !.status = HandleException(kind).status,
              !.failures = @ + 1]

receiveRequest(len, rate, tonic) ==
    /\ pipe.pc = "idle"
    /\ pipe' = [pipe EXCEPT !.pc = "validate", !.bufferLen = len,
                            !.sampleRate = rate, !.tonic = tonic]

\* input-shape errors are rejected before the first stage
validateInput ==
    /\ pipe.pc = "validate"
    /\ pipe' = IF InputShapeValid(pipe)
               THEN [pipe EXCEPT !.pc = "stage"]
               ELSE Raised(pipe, "ValueError")

\* the next stage runs to completion on its predecessor's whole output;
\* silent says whether the content this stage sees yields nothing
runStage(silent) ==
    /\ pipe.pc = "stage"
    /\ LET name == Stages[pipe.stagesRun + 1]
           ran == [pipe EXCEPT !.stagesRun = @ + 1,
                               !.pc = IF pipe.stagesRun + 1 = Len(Stages)
                                     THEN "respond" ELSE "stage"]
       IN  pipe' = CASE name = "pitch" -> [ran EXCEPT !.notesEmpty = silent]
                     [] name = "raaga" ->
                            [ran EXCEPT !.raagaAbsent = pipe.notesEmpty \/ silent]
                     [] OTHER -> ran

\* the next stage raises inside; the pipeline boundary catches it
stageFault ==
    /\ pipe.pc = "stage"
    /\ pipe' = Raised([pipe EXCEPT !.stagesRun = @ + 1,
                                   !.fault = Stages[pipe.stagesRun + 1]],
                      "Exception")

\* all stages done: the result is returned, empty or not
respond ==
    /\ pipe.pc = "respond"
    /\ pipe' = [pipe EXCEPT !.pc = "done", !.outcome = "ok", !.status = HttpOk]

nextRequest ==
    /\ pipe.pc = "done"
    /\ pipe' = PipeStart(pipe.status)

-----------------------------------------------------------------------------
(* Specifications *)

PlayerIdle == audioEl = NoAudio
ClientIdle == StoreInit /\ ClientInit /\ PlayerIdle
\* the environment of the store that the store's own actions leave alone
envVars == <<inFlight, uploaded, intervals, pendingResets, toast, lastOutcome,
             urlsCreated, urlsRevoked>>
backendVars == <<raagaVars, mapperVars, pipe>>
RaagaIdle == raagaNotes = <<>> /\ raagaResult = None
MapperIdle == frames = <<>> /\ labels = <<>> /\ notes = <<>> /\ annotated = <<>>
PipeIdle == pipe = PipeStart(0)

\* ---- Spec: the browser client
Init == ClientIdle /\ RaagaIdle /\ MapperIdle /\ PipeIdle

Next ==
    \/ \E file \in Files : onDrop(file) /\ UNCHANGED <<raagaVars, mapperVars, pipe>>
    \/ handleRemove /\ UNCHANGED <<raagaVars, mapperVars, pipe>>
    \/ handleTranscribeNoFile /\ UNCHANGED <<raagaVars, mapperVars, pipe>>
    \/ handleTranscribeStart /\ UNCHANGED <<raagaVars, mapperVars, pipe>>
    \/ progressIntervalTick /\ UNCHANGED <<raagaVars, mapperVars, pipe>>
    \/ \E p \in UploadPercents :
          onUploadProgress(p) /\ UNCHANGED <<raagaVars, mapperVars, pipe>>
    \/ \E sw \in ResponseSwarams, rg \in ResponseRaaga, ly \in ResponseLyrics :
          /\ responseSuccess([swarams |-> sw, raaga |-> rg, lyrics |-> ly])
          /\ UNCHANGED <<raagaVars, mapperVars, pipe>>
    \/ responseFailure /\ UNCHANGED <<raagaVars, mapperVars, pipe>>
    \/ delayedProgressReset /\ UNCHANGED <<raagaVars, mapperVars, pipe>>

Spec == Init /\ [][Next]_vars

\* ---- SpecPlayback: a transcription result on screen while the audio plays
InitPlayback ==
    /\ transcriptionResult \in ShownResults
    /\ lyrics \in ShownLyrics
    /\ audioFile = "song.mp3" /\ audioUrl = BlobUrls[1]
    /\ isTranscribing = FALSE /\ transcriptionProgress = Num(0)
    /\ raagaInfo = Null /\ currentTime = 0
    /\ isPlaying = TRUE /\ duration = MaxTime
    /\ audioEl = [MountedAudio(MaxTime) EXCEPT !.loaded = TRUE, !.paused = FALSE]
    /\ inFlight = 0 /\ uploaded = 0 /\ intervals = 0 /\ pendingResets = 0
    /\ toast = Toast("success", "uploaded")
    /\ lastOp = [op |-> "onDrop", file |-> "song.mp3"]
    /\ lastOutcome = "none"
    /\ urlsCreated = 1 /\ urlsRevoked = {}
    /\ RaagaIdle /\ MapperIdle /\ PipeIdle

NextPlayback ==
    \/ \E t \in 0..MaxTime :
          handleTimeUpdate(t) /\ UNCHANGED <<clientVars, playerVars, backendVars>>
    \/ currentTime = MaxTime /\ handleEnded
          /\ UNCHANGED <<clientVars, playerVars, backendVars>>

SpecPlayback == InitPlayback /\ [][NextPlayback]_vars

\* ---- SpecStore: the store's actions called in any order
NextStore ==
    \/ \E file \in StoredFiles :
          setAudioFile(file) /\ UNCHANGED <<envVars, playerVars, backendVars>>
    \/ \E url \in StoredUrls :
          setAudioUrl(url) /\ UNCHANGED <<envVars, playerVars, backendVars>>
    \/ \E value \in BOOLEAN :
          setTranscribing(value) /\ UNCHANGED <<envVars, playerVars, backendVars>>
    \/ \E progress \in StoredProgress :
          setTranscriptionProgress(progress)
          /\ UNCHANGED <<envVars, playerVars, backendVars>>
    \/ \E result \in ResponseSwarams :
          setTranscriptionResult(result)
          /\ UNCHANGED <<envVars, playerVars, backendVars>>
    \/ \E info \in ResponseRaaga :
          setRaagaInfo(info) /\ UNCHANGED <<envVars, playerVars, backendVars>>
    \/ \E value \in ResponseLyrics :
          setLyrics(value) /\ UNCHANGED <<envVars, playerVars, backendVars>>
    \/ \E time \in StoredTimes :
          setCurrentTime(time) /\ UNCHANGED <<envVars, playerVars, backendVars>>
    \/ \E value \in BOOLEAN :
          setIsPlaying(value) /\ UNCHANGED <<envVars, playerVars, backendVars>>
    \/ \E value \in StoredDurations :
          setDuration(value) /\ UNCHANGED <<envVars, playerVars, backendVars>>
    \/ reset /\ UNCHANGED <<envVars, playerVars, backendVars>>

SpecStore == Init /\ [][NextStore]_vars

\* ---- SpecPlayer: files loaded and removed, and the audio player's controls
PlayableFiles == { f \in Files : f.id \in {"song.mp3", "clip.wav"} }

NextPlayer ==
    \/ \E file \in PlayableFiles : onDrop(file) /\ UNCHANGED backendVars
    \/ handleRemove /\ UNCHANGED backendVars
    \/ handleLoadedMetadata /\ UNCHANGED <<envVars, backendVars>>
    \/ /\ audioEl.mounted
       /\ handleTimeUpdate(AudioCurrentTime)
       /\ lastOp' = [op |-> "timeupdate"]
       /\ UNCHANGED <<envVars, playerVars, backendVars>>
    \/ playOn /\ UNCHANGED <<envVars, backendVars>>
    \/ audioEnded /\ UNCHANGED <<envVars, backendVars>>
    \/ togglePlayPause /\ UNCHANGED <<envVars, backendVars>>
    \/ skipBackward /\ UNCHANGED <<envVars, backendVars>>
    \/ skipForward /\ UNCHANGED <<envVars, backendVars>>
    \/ \E percent \in SeekPercents :
          handleSeek(percent) /\ UNCHANGED <<envVars, backendVars>>

SpecPlayer == Init /\ [][NextPlayer]_vars

\* ---- SpecLive: the browser client, where a pending request settles (the
\* response arrives, the request fails, or axios gives up after 300 s)
requestSettles ==
    /\ \/ \E sw \in ResponseSwarams, rg \in ResponseRaaga, ly \in ResponseLyrics :
             responseSuccess([swarams |-> sw, raaga |-> rg, lyrics |-> ly])
       \/ responseFailure
    /\ UNCHANGED backendVars

SpecLive == Init /\ [][Next]_vars /\ WF_vars(requestSettles)

\* ---- SpecRaaga: detectRaaga over growing note sequences
InitRaaga ==
    /\ raagaNotes = <<>>
    /\ raagaResult = detectRaaga(<<>>)
    /\ ClientIdle /\ MapperIdle /\ PipeIdle

NextRaaga ==
    \E d \in NoteAlphabet :
        AppendNote(d) /\ UNCHANGED <<storeVars, clientVars, playerVars, mapperVars, pipe>>

SpecRaaga == InitRaaga /\ [][NextRaaga]_vars

\* ---- SpecMapper: the Swaram Mapper and Gamakam Classifier over growing contours
InitMapper ==
    /\ MapperIdle
    /\ ClientIdle /\ RaagaIdle /\ PipeIdle

NextMapper ==
    \E kind \in FrameKinds :
        AppendFrame(kind) /\ UNCHANGED <<storeVars, clientVars, playerVars, raagaVars, pipe>>

SpecMapper == InitMapper /\ [][NextMapper]_vars

\* ---- SpecPipeline: transcription requests, one after another
InitPipeline ==
    /\ PipeIdle
    /\ ClientIdle /\ RaagaIdle /\ MapperIdle

NextPipeline ==
    \/ \E len \in BufferLengths, rate \in SampleRates, tonic \in Tonics :
          /\ receiveRequest(len, rate, tonic)
          /\ UNCHANGED <<storeVars, clientVars, playerVars, raagaVars, mapperVars>>
    \/ validateInput /\ UNCHANGED <<storeVars, clientVars, playerVars, raagaVars, mapperVars>>
    \/ \E silent \in BOOLEAN :
          runStage(silent) /\ UNCHANGED <<storeVars, clientVars, playerVars, raagaVars, mapperVars>>
    \/ stageFault /\ UNCHANGED <<storeVars, clientVars, playerVars, raagaVars, mapperVars>>
    \/ respond /\ UNCHANGED <<storeVars, clientVars, playerVars, raagaVars, mapperVars>>
    \/ nextRequest /\ UNCHANGED <<storeVars, clientVars, playerVars, raagaVars, mapperVars>>

SpecPipeline == InitPipeline /\ [][NextPipeline]_vars

\* ---- SpecScale: detectRaaga while a catalog raaga's scale is performed
InitScale == InitRaaga

NextScale ==
    \E phrase \in ScalePhrases :
        PlayPhraseNote(phrase) /\ UNCHANGED <<storeVars, clientVars, playerVars, mapperVars, pipe>>

SpecScale == InitScale /\ [][NextScale]_vars

-----------------------------------------------------------------------------
(* Claims *)

\* C1: a successful response with an empty swarams list and a null raaga is
\* shown as a success: the toast is a success toast (not an error toast),
\* isTranscribing is false again, transcriptionResult is the empty list and
\* the swaram view renders its placeholder.
C1_EmptyResultIsNotAFault ==
    ( /\ lastOp.op = "response"
      /\ lastOp.data.swarams = Some(<<>>)
      /\ lastOp.data.raaga = Null )
    => /\ toast.kind = "success"
       /\ ~isTranscribing
       /\ transcriptionResult = Some(<<>>)
       /\ showsPlaceholder

C1_Witness ==
    /\ lastOp.op = "response"
    /\ lastOp.data.swarams = Some(<<>>)
    /\ lastOp.data.raaga = Null
    /\ toast = Toast("success", "completed, no swarams")
    /\ transcriptionResult = Some(<<>>)
    /\ ~isTranscribing

\* C2 (as claimed): after a successful response whose raaga is null, raagaInfo
\* is null, whatever an earlier transcription stored.
C2_NullRaagaClearsRaagaInfo ==
    (lastOp.op = "response" /\ lastOp.data.raaga = Null) => raagaInfo = Null

\* C3 (as claimed): a note's end is exclusive: at a time equal to note i's end
\* and note i+1's start the current swaram is note i+1.
C3_EndIsExclusive ==
    IsSome(transcriptionResult) =>
        LET l == TheValue(transcriptionResult)
        IN  \A i \in 1..(Len(l) - 1) :
                (currentTime = l[i].end /\ currentTime = l[i + 1].start)
                    => getCurrentSwaram = Some(i)      \* 0-based index of note i+1

C6_DetectRaagaTotal ==
    /\ raagaNotes = <<>> => raagaResult = None
    /\ \/ raagaResult = None
       \/ /\ Len(raagaResult) = 1
          /\ TheValue(raagaResult).index \in 1..Len(RaagaCatalog)
          /\ TheValue(raagaResult).name \in { RaagaCatalog[i].name : i \in 1..Len(RaagaCatalog) }
          /\ TheValue(raagaResult).confidence[1] >= 0
          /\ TheValue(raagaResult).confidence[1] <= TheValue(raagaResult).confidence[2]

\* a match reported for fewer than five notes
C6_Witness ==
    /\ Len(raagaNotes) \in 1..4
    /\ IsSome(raagaResult)

\* C7: the Swaram Mapper emits exactly one note per maximal run of consecutive
\* accepted frames with the same (swaram, octave): note n starts at the time of
\* the run's first frame, ends one hop after its last frame and carries its
\* label; notes are in time order with start < end and end <= next start, and
\* neighbouring notes never carry the same (swaram, octave).
C7_OneNotePerMaximalRun ==
    LET Acc == { i \in 1..Len(frames) : IsSome(labels[i]) }
        Lab(i) == <<TheValue(labels[i]).swaram, TheValue(labels[i]).octave>>
        HasPrev(i) == \E j \in Acc : j < i
        Prev(i) == CHOOSE j \in Acc : j < i /\ \A m \in Acc : m < i => m <= j
        RunStarts == { i \in Acc : ~HasPrev(i) \/ Lab(Prev(i)) # Lab(i) }
        First(n) == CHOOSE i \in RunStarts :
                        Cardinality({ j \in RunStarts : j <= i }) = n
        Members(n) == { i \in Acc :
                          /\ First(n) <= i
                          /\ \A r \in RunStarts : r > First(n) => i < r }
        Last(n) == CHOOSE i \in Members(n) : \A m \in Members(n) : m <= i
    IN  /\ Len(notes) = Cardinality(RunStarts)
        /\ \A n \in 1..Len(notes) :
              /\ notes[n].start = frames[First(n)].time
              /\ notes[n].end = frames[Last(n)].time + 1
              /\ <<notes[n].swaram, notes[n].octave>> = Lab(First(n))
              /\ notes[n].start < notes[n].end
        /\ \A n \in 1..(Len(notes) - 1) :
              /\ notes[n].end <= notes[n + 1].start
              /\ <<notes[n].swaram, notes[n].octave>>
                    # <<notes[n + 1].swaram, notes[n + 1].octave>>

\* two notes, the first merged from a run of several accepted frames
C7_Witness ==
    /\ Len(notes) = 2
    /\ \E i \in 1..(Len(frames) - 2) :
          /\ IsSome(labels[i]) /\ labels[i + 1] = labels[i]
          /\ IsSome(labels[i + 2]) /\ labels[i + 2] # labels[i]
          /\ notes[1].start = frames[i].time
          /\ notes[1].end = frames[i + 1].time + 1
          /\ notes[2].start = frames[i + 2].time

\* C8: a voiced frame is assigned a ToneMap entry exactly when that entry is
\* the nearest one and lies at most 10 cents away; at exactly +10 cents from
\* an entry the frame gets that entry, at +10.01 cents it gets no entry at all.
C8_ToleranceIsInclusive ==
    \A i \in 1..Len(frames) :
        frames[i].voiced =>
            /\ \A k \in DOMAIN ToneMap :
                  labels[i] = Some(ToneMap[k]) <=>
                      /\ \A j \in DOMAIN ToneMap :
                            CentDistance(frames[i].pitch, ToneMap[k])
                                <= CentDistance(frames[i].pitch, ToneMap[j])
                      /\ CentDistance(frames[i].pitch, ToneMap[k]) <= 1000
            /\ \A k \in DOMAIN ToneMap :
                  /\ frames[i].pitch = ToneMap[k].cents + 1000
                        => labels[i] = Some(ToneMap[k])
                  /\ frames[i].pitch = ToneMap[k].cents + 1001
                        => labels[i] = None

\* one frame at +10.00 cents from Madhya Sa assigned to it, and one frame at
\* +10.01 cents assigned to nothing
C8_Witness ==
    \E i, j \in 1..Len(frames) :
        /\ frames[i].voiced /\ frames[i].pitch = SaCents + 1000
        /\ IsSome(labels[i])
        /\ TheValue(labels[i]).swaram = "Sa" /\ TheValue(labels[i]).octave = "Madhya"
        /\ frames[j].voiced /\ frames[j].pitch = SaCents + 1001
        /\ labels[j] = None

C10_ClassifierOnlySetsGamakam ==
    /\ Len(annotated) = Len(notes)
    /\ \A n \in 1..Len(notes) :
          /\ annotated[n].start = notes[n].start
          /\ annotated[n].end = notes[n].end
          /\ annotated[n].swaram = notes[n].swaram
          /\ annotated[n].octave = notes[n].octave
          /\ annotated[n].confidence = notes[n].confidence
          /\ DOMAIN annotated[n] = DOMAIN notes[n]
          /\ annotated[n].end - annotated[n].start < 2 => annotated[n].gamakam = Null

\* a labelled note next to a one-hop note that stays unlabelled
C10_Witness ==
    \E n, m \in 1..Len(annotated) :
        /\ annotated[n].gamakam \in {"kampitam", "janta"}
        /\ annotated[n].confidence # <<1, 1>>
        /\ annotated[m].end - annotated[m].start = 1
        /\ annotated[m].gamakam = Null

\* C11: for the note sequence equal to Mayamalavagowla's arohana followed by
\* its avarohana, detectRaaga reports Mayamalavagowla with a combined score
\* of at least 0.9.
C11_MayamalavagowlaScale ==
    raagaNotes = RaagaCatalog[1].arohana \o RaagaCatalog[1].avarohana =>
        /\ IsSome(raagaResult)
        /\ TheValue(raagaResult).name = "Mayamalavagowla"
        /\ 10 * TheValue(raagaResult).confidence[1]
              >= 9 * TheValue(raagaResult).confidence[2]
        /\ TheValue(raagaResult).confidence =
              CombinedScore(FirstOccurrenceOrder(raagaNotes), RaagaCatalog[1])

\* the whole scale has been performed and matched with score 38/40
C11_Witness ==
    /\ Len(raagaNotes) = 16
    /\ raagaNotes = RaagaCatalog[1].arohana \o RaagaCatalog[1].avarohana
    /\ IsSome(raagaResult)
    /\ TheValue(raagaResult).name = "Mayamalavagowla"
    /\ 20 * TheValue(raagaResult).confidence[1] = 19 * TheValue(raagaResult).confidence[2]

\* C12: a dropped file becomes audioFile only if its MIME type is an
\* accepted audio type or its name ends in .mp3, .wav, .mid or .midi, and its
\* size is at most 50MB; a drop of a file failing either check leaves
\* audioFile and audioUrl as they were.
C12_OnlyValidFilesAreLoaded ==
    /\ [](audioFile # Null =>
            \E f \in Files :
                /\ f.id = audioFile
                /\ \/ f.type \in {"audio/mpeg", "audio/mp3", "audio/wav",
                                  "audio/midi", "audio/x-midi"}
                   \/ f.ext \in {".mp3", ".wav", ".mid", ".midi"}
                /\ f.sizeMB <= 50)
    /\ [][\A f \in Files :
            ( /\ lastOp'.op = "onDrop"
              /\ lastOp'.file = f.id
              /\ \/ ~ \/ f.type \in {"audio/mpeg", "audio/mp3", "audio/wav",
                                      "audio/midi", "audio/x-midi"}
                       \/ f.ext \in {".mp3", ".wav", ".mid", ".midi"}
                 \/ f.sizeMB > 50 )
            => (audioFile' = audioFile /\ audioUrl' = audioUrl)]_vars

\* after an accepted file was removed again, a 51MB file was dropped and
\* nothing was loaded
C12_Witness ==
    /\ urlsCreated = 1
    /\ lastOp = [op |-> "onDrop", file |-> "long.wav"]
    /\ toast = Toast("error", "too large")
    /\ audioFile = Null /\ audioUrl = Null

\* C13: while isTranscribing is true no step replaces or removes the loaded
\* file: audioFile and audioUrl keep their values in every step taken from a
\* state where a transcription runs, the step that completes it included.
C13_FileFixedWhileTranscribing ==
    [][isTranscribing => (audioFile' = audioFile /\ audioUrl' = audioUrl)]_vars

\* a transcription of song.mp3 under way, after upload progress was reported
C13_Witness ==
    /\ isTranscribing
    /\ inFlight = 1
    /\ audioFile = "song.mp3" /\ audioUrl # Null
    /\ lastOp.op = "onUploadProgress"

\* C14 (as claimed): skip forward moves the playback position to
\* min(duration, position + 5) and skip backward to max(0, position - 5),
\* and the playback position is always within 0 .. the duration of the audio
\* loaded in the player.
C14_SkipAndSeekStayInRange ==
    /\ lastOp.op = "skipForward" =>
          AudioCurrentTime = Min(audioEl.duration, lastOp.from + 5)
    /\ lastOp.op = "skipBackward" =>
          AudioCurrentTime = Max(0, lastOp.from - 5)
    /\ audioEl.mounted =>
          (0 <= AudioCurrentTime /\ AudioCurrentTime <= audioEl.duration)

\* C15: at every playback time at most one swaram and at most one lyric line
\* is highlighted, namely the first entry of its list whose interval
\* [start, end] contains currentTime; nothing is highlighted when no entry
\* contains currentTime or the list is null.
C15_FirstMatchIsHighlighted ==
    /\ Cardinality(activeSwarams) <= 1
    /\ Cardinality(activeLyrics) <= 1
    /\ \A index \in 0..MaxShownNotes :
          index \in activeSwarams <=>
              /\ IsSome(transcriptionResult)
              /\ index < Len(TheValue(transcriptionResult))
              /\ TheValue(transcriptionResult)[index + 1].start <= currentTime
              /\ currentTime <= TheValue(transcriptionResult)[index + 1].end
              /\ \A j \in 1..index :
                    ~ /\ TheValue(transcriptionResult)[j].start <= currentTime
                      /\ currentTime <= TheValue(transcriptionResult)[j].end
    /\ \A index \in 0..MaxShownNotes :
          index \in activeLyrics <=>
              /\ IsSome(lyrics)
              /\ index < Len(TheValue(lyrics))
              /\ TheValue(lyrics)[index + 1].start <= currentTime
              /\ currentTime <= TheValue(lyrics)[index + 1].end
              /\ \A j \in 1..index :
                    ~ /\ TheValue(lyrics)[j].start <= currentTime
                      /\ currentTime <= TheValue(lyrics)[j].end

\* playback stands where two swarams and two lyric lines meet: both
\* intervals contain currentTime and the first of each is highlighted
C15_Witness ==
    /\ IsSome(transcriptionResult) /\ IsSome(lyrics)
    /\ Len(TheValue(transcriptionResult)) = 2 /\ Len(TheValue(lyrics)) = 2
    /\ TheValue(transcriptionResult)[1].end = currentTime
    /\ TheValue(transcriptionResult)[2].start = currentTime
    /\ TheValue(lyrics)[1].end = currentTime
    /\ TheValue(lyrics)[2].start = currentTime
    /\ currentTime > 0
    /\ activeSwarams = {0}
    /\ activeLyrics = {0}

\* C16: removing the file revokes the object URL made for it and sets
\* audioFile and audioUrl to null; at all times every object URL created so
\* far has been revoked, except the one stored in audioUrl.
C16_ObjectUrlsAreRevoked ==
    /\ \A k \in 1..urlsCreated :
          BlobUrls[k] \in urlsRevoked \/ BlobUrls[k] = audioUrl
    /\ lastOp.op = "handleRemove" =>
          /\ audioFile = Null /\ audioUrl = Null
          /\ BlobUrls[urlsCreated] \in urlsRevoked

\* two uploads, each followed by a removal: both URLs were revoked
C16_Witness ==
    /\ lastOp.op = "handleRemove"
    /\ urlsCreated = 2
    /\ urlsRevoked = {BlobUrls[1], BlobUrls[2]}
    /\ audioFile = Null /\ audioUrl = Null

\* C17: reset() returns every store field (audioFile, audioUrl,
\* isTranscribing, transcriptionProgress, transcriptionResult, raagaInfo,
\* lyrics, currentTime, isPlaying, duration) to its initial value; a second
\* reset() leaves the same state as the first.
C17_ResetRestoresInitialState ==
    lastOp.op = "reset" =>
        /\ audioFile = Null /\ audioUrl = Null
        /\ isTranscribing = FALSE
        /\ transcriptionProgress = Num(0)
        /\ transcriptionResult = None /\ raagaInfo = Null /\ lyrics = None
        /\ currentTime = 0 /\ isPlaying = FALSE /\ duration = 0

\* reset() called twice in a row
C17_Witness ==
    /\ lastOp = [op |-> "reset", times |-> 2]
    /\ StoreInit

\* C18: at most one transcription request is in flight at any time; a
\* request starts only while isTranscribing is false, and isTranscribing is
\* true from the start of a request until it completes.
C18_OneRequestAtATime ==
    /\ [](inFlight <= 1 /\ (isTranscribing <=> inFlight = 1))
    /\ [][inFlight' > inFlight => (~isTranscribing /\ isTranscribing')]_vars

\* a second request in flight after the first one completed
C18_Witness ==
    /\ inFlight = 1
    /\ isTranscribing
    /\ pendingResets = 1
    /\ lastOp = [op |-> "handleTranscribe", sent |-> TRUE]

\* C19: every transcription request that starts eventually ends with
\* isTranscribing false, whether it succeeds, fails with an HTTP or network
\* error, or runs into the 5 minute timeout.
C19_RequestEventuallyEnds ==
    isTranscribing ~> ~isTranscribing

\* a request has ended in the catch block and isTranscribing is false again
C19_Witness ==
    /\ lastOp.op = "failure"
    /\ lastOutcome = "failure"
    /\ inFlight = 0
    /\ ~isTranscribing

\* C20: after a transcription request has failed, transcriptionProgress is 0
\* and stays 0 until the next request starts (lastOutcome is "failure" from
\* the catch block until the next handleTranscribe sends a request).
C20_ProgressStaysZeroAfterFailure ==
    lastOutcome = "failure" => transcriptionProgress = Num(0)

C22_NoFileNoRequest ==
    [][(lastOp'.op = "handleTranscribe" /\ audioFile = Null) =>
          /\ UNCHANGED storeVars
          /\ ~isTranscribing'
          /\ UNCHANGED <<inFlight, intervals, pendingResets, lastOutcome>>
          /\ toast'.kind = "error"
          /\ lastOp'.sent = FALSE]_vars

\* handleTranscribe was invoked with no file after an earlier transcription
\* had left its result in the store
C22_Witness ==
    /\ lastOp = [op |-> "handleTranscribe", sent |-> FALSE]
    /\ audioFile = Null
    /\ toast.kind = "error"
    /\ ~isTranscribing
    /\ inFlight = 0
    /\ transcriptionResult = Some(SampleNotes)

\* C23: within one transcription request transcriptionProgress never
\* decreases: every step that leaves the same request pending, whichever of
\* the timers or upload callbacks takes it, moves the progress from a number
\* to a number that is not smaller.
C23_ProgressNeverDecreasesInFlight ==
    [][(inFlight = 1 /\ inFlight' = 1
        /\ transcriptionProgress.kind = "number"
        /\ transcriptionProgress'.kind = "number")
       => transcriptionProgress'.value >= transcriptionProgress.value]_vars

\* C24: at most one progress interval timer is live at any time, and none is
\* live while isTranscribing is false (every interval a request started has
\* been cleared once the request has completed, in success and in failure).
C24_IntervalsAreCleared ==
    /\ intervals <= 1
    /\ ~isTranscribing => intervals = 0

\* C25: the delayed reset of transcriptionProgress scheduled by a successful
\* response never changes the progress of a later request: when its callback
\* runs while a request is pending, transcriptionProgress keeps its value.
C25_DelayedResetSparesLaterRequest ==
    [][(lastOp'.op = "delayedReset" /\ inFlight = 1 /\ pendingResets' < pendingResets)
       => transcriptionProgress' = transcriptionProgress]_vars

=============================================================================
